---- MODULE Spec2Model ----
(***************************************************************************)
(* A model of BikeSimulatorTools: polygon triggers (Triggers.py), dynamic  *)
(* flows and their construction (DynamicFlows.py), the multi-target        *)
(* conflict manager (MultiConflict.py), the binding of flows to triggers   *)
(* (SimConfig.py), trigger-switched vehicle signals                        *)
(* (VehicleSignalControl.py) and the single timed conflict vehicle         *)
(* (ConflictVehicles.py).  The SUMO simulation the package drives through  *)
(* TraCI is the environment: its clock, the entities it reports and their  *)
(* positions and speeds change between the package's calls.                *)
(***************************************************************************)
EXTENDS Integers, Sequences, FiniteSets, TLC

\* ------------------------------------------------------------------ bounds
MaxTime == 2       \* simulated ticks explored
MaxCalls == 2      \* check() calls of one zone within one tick
MaxPos == 3        \* positions of the checked point on the line 0..MaxPos

\* ------------------------------------------------------------ Triggers.py
ENTRY == "ENTRY"
EXIT == "EXIT"
NO_CHANGE == "NO_CHANGE"
Events == {ENTRY, EXIT, NO_CHANGE}

\* The trigger polygons, cut along one axis: each zone is the open stretch
\* between two corners.
Zones == {"entry", "exit"}
shape == [z \in Zones |-> IF z = "entry" THEN <<0, 2>> ELSE <<2, 4>>]
Points == 0..MaxPos

VARIABLES
    simTime,      \* traci.simulation.getTime()
    state,        \* Trigger.state, per zone
    last_check,   \* Trigger.last_check, per zone
    last_event,   \* Trigger.last_event, per zone
    calls,        \* check() calls of the zone in the current tick
    returned,     \* what the zone's last check() returned
    arg,          \* the point the zone's last check() was given
    snap,         \* the zone's fields and result after the first check() of the tick
    hist          \* the event of the first check() of each tick, oldest first

trigVars == <<simTime, state, last_check, last_event, calls, returned, arg, snap, hist>>

\* Point(point).within(self.shape): a point on the boundary is not within.
includes(z, point) == shape[z][1] < point /\ point < shape[z][2]

check_fresh_ge(z) == simTime >= last_check[z]

\* The guard of check(): the first call at this simulation time.
check_fresh(z) == simTime > last_check[z]

check_event_always_entry(new_state, old_state) ==
    IF new_state # old_state THEN ENTRY ELSE NO_CHANGE

\* The event of a fresh check.
check_event(new_state, old_state) ==
    IF new_state # old_state
    THEN (IF new_state = TRUE THEN ENTRY ELSE EXIT)
    ELSE NO_CHANGE

check_state_latest(z, point) == includes(z, point)

\* The fields of zone z after check(point), and the value returned.
check_state(z, point) == IF check_fresh(z) THEN includes(z, point) ELSE state[z]
check_last(z) == IF check_fresh(z) THEN simTime ELSE last_check[z]
check_result(z, point) ==
    IF check_fresh(z) THEN check_event(includes(z, point), state[z]) ELSE last_event[z]

NoSnap == [ret |-> NO_CHANGE, state |-> FALSE, last_check |-> -1,
           last_event |-> NO_CHANGE, point |-> 0, old_state |-> FALSE]

TrigInit ==
    /\ simTime = 0
    /\ state = [z \in Zones |-> FALSE]
    /\ last_check = [z \in Zones |-> -1]
    /\ last_event = [z \in Zones |-> NO_CHANGE]
    /\ calls = [z \in Zones |-> 0]
    /\ returned = [z \in Zones |-> NO_CHANGE]
    /\ arg = [z \in Zones |-> 0]
    /\ snap = [z \in Zones |-> NoSnap]
    /\ hist = [z \in Zones |-> <<>>]

\* Trigger.check(point) on zone z.
Trigger_check(z, point) ==
    /\ calls[z] < MaxCalls
    /\ state' = [state EXCEPT ![z] = check_state(z, point)]
    /\ last_check' = [last_check EXCEPT ![z] = check_last(z)]
    /\ last_event' = [last_event EXCEPT ![z] = check_result(z, point)]
    /\ returned' = [returned EXCEPT ![z] = check_result(z, point)]
    /\ calls' = [calls EXCEPT ![z] = @ + 1]
    /\ arg' = [arg EXCEPT ![z] = point]
    /\ snap' = IF calls[z] = 0
               THEN [snap EXCEPT ![z] = [ret |-> check_result(z, point),
                                         state |-> check_state(z, point),
                                         last_check |-> check_last(z),
                                         last_event |-> check_result(z, point),
                                         point |-> point,
                                         old_state |-> state[z]]]
               ELSE snap
    /\ hist' = IF calls[z] = 0
               THEN [hist EXCEPT ![z] = Append(@, check_result(z, point))]
               ELSE hist
    /\ UNCHANGED simTime

\* traci.simulationStep(): the clock advances by one tick.
SimulationStep ==
    /\ simTime < MaxTime
    /\ simTime' = simTime + 1
    /\ calls' = [z \in Zones |-> 0]
    /\ snap' = [z \in Zones |-> NoSnap]
    /\ UNCHANGED <<state, last_check, last_event, returned, arg, hist>>


\* -------------------------------------------------------- DynamicFlows.py
MaxCount == 2      \* largest maxCount, and the emissions explored of an uncapped flow
MaxSteps == 3      \* largest finite steps_since_last_vehicle explored
MaxHeadway == 2    \* headways 1..MaxHeadway, in seconds
MaxDeltaT == 2     \* tick durations 1..MaxDeltaT, in seconds
ProbDen == 2       \* probabilities are 0/ProbDen .. ProbDen/ProbDen
RandDen == 4       \* random.random() draws 0/RandDen .. (RandDen-1)/RandDen

VARIABLES
    cfg,          \* the constructor arguments the flow keeps
    enabled,      \* DynamicFlow.enabled
    count,        \* DynamicFlow.count
    steps_inf,    \* steps_since_last_vehicle is still np.inf
    steps,        \* steps_since_last_vehicle, when finite
    present,      \* the vehicles and persons the simulation lists
    f_op,         \* the flow method called last
    f_pre,        \* count and enabled when that call began
    f_created,    \* the ids that call gave to traci.vehicle.add / traci.person.add
    f_removed,    \* the ids that call removed
    f_S,          \* the context subscription result that call read
    f_before,     \* the ids listed when that call began
    ncreate,      \* creation commands issued since construction
    f_issued,     \* the ids of all creation commands issued since construction
    g_never,      \* no run() call has created an entity yet
    g_runs        \* run() calls since the one that last created an entity

flowVars == <<cfg, enabled, count, steps_inf, steps, present,
              f_op, f_pre, f_created, f_removed, f_S, f_before, ncreate, f_issued,
              g_never, g_runs>>

\* name + "." + str(i), name + ".ped." + str(i), and a vehicle of another name.
VehName(i) == <<"veh", i>>
PedName(i) == <<"ped", i>>
Ego == <<"ego", 0>>
Entities == {VehName(i) : i \in 0..MaxCount} \cup {PedName(i) : i \in 0..MaxCount} \cup {Ego}
IsVehicle(e) == e[1] # "ped"

\* The arguments with which __init__ returns a flow: one of probability and
\* headway, and no soft vaporize for a pedestrian flow.
Configs ==
    { c \in [ mode : {"headway", "probability"},
              headway : 1..MaxHeadway,
              probability : 0..ProbDen,
              capped : BOOLEAN,
              maxCount : 0..MaxCount,
              vaporizeOnDisable : BOOLEAN,
              soft_vaporize : BOOLEAN,
              ped : BOOLEAN,
              ego_id : {Ego, VehName(0)},
              deltaT : 1..MaxDeltaT ] :
        /\ ~(c.soft_vaporize /\ c.ped)
        /\ (c.mode = "headway" => c.probability = 0)
        /\ (c.mode = "probability" => c.headway = 1)
        /\ (~c.capped => c.maxCount = 0)
        /\ (~c.soft_vaporize => c.ego_id = Ego) }

RECURSIVE Pow(_, _)
Pow(b, e) == IF e = 0 THEN 1 ELSE b * Pow(b, e - 1)

p_tick_num_linear(time_step) == cfg.probability * time_step * Pow(ProbDen, time_step - 1)

\* p = 1 - (1 - probability)**time_step, as numerator and denominator.
p_tick_num(time_step) == Pow(ProbDen, time_step) - Pow(ProbDen - cfg.probability, time_step)
p_tick_den(time_step) == Pow(ProbDen, time_step)

send_vehicle_gt(draw) ==
    IF cfg.mode = "headway"
    THEN steps_inf \/ cfg.deltaT * (steps + 1) > cfg.headway
    ELSE draw * p_tick_den(cfg.deltaT) < p_tick_num(cfg.deltaT) * RandDen

\* send_vehicle of run(): steps is the counter after its increment.
send_vehicle(draw) ==
    IF cfg.mode = "headway"
    THEN steps_inf \/ cfg.deltaT * (steps + 1) >= cfg.headway
    ELSE draw * p_tick_den(cfg.deltaT) < p_tick_num(cfg.deltaT) * RandDen

under_cap_le == ~cfg.capped \/ count <= cfg.maxCount

\* self.count < self.maxCount, maxCount being np.inf when none was given.
under_cap == ~cfg.capped \/ count < cfg.maxCount

run_emits_disabled(draw) == send_vehicle(draw) /\ under_cap

\* The condition of run() under which an entity is created.
run_emits(draw) == enabled /\ send_vehicle(draw) /\ under_cap

NewName_first == IF cfg.ped THEN PedName(0) ELSE VehName(0)

NewName == IF cfg.ped THEN PedName(count) ELSE VehName(count)

FlowNames(n) == {VehName(i) : i \in 0..(n - 1)}
FlowPedNames(n) == {PedName(i) : i \in 0..(n - 1)}

vaporize_soft_no_ego(S) ==
    {v \in FlowNames(count) : v \in present /\ v \notin S}

\* The ids vaporize() removes in soft mode, S being the keys of the context
\* subscription results.
vaporize_soft(S) ==
    {v \in FlowNames(count) : v \in present /\ v # cfg.ego_id /\ v \notin S}

\* The ids vaporize() removes.
vaporize_removes(S) ==
    IF ~cfg.soft_vaporize
    THEN IF cfg.ped
         THEN {v \in FlowPedNames(count) : v \in present}
         ELSE {v \in FlowNames(count) : v \in present}
    ELSE vaporize_soft(S)

\* The fields __init__ sets whatever its arguments.
FlowFresh ==
    /\ count = 0
    /\ steps_inf = TRUE
    /\ steps = 0
    /\ f_op = "init"
    /\ f_pre = [count |-> 0, enabled |-> enabled]
    /\ f_created = {}
    /\ f_removed = {}
    /\ f_S = {}
    /\ f_before = {}
    /\ ncreate = 0
    /\ f_issued = {}
    /\ g_never = TRUE
    /\ g_runs = 0

FlowInit ==
    /\ cfg \in Configs
    /\ enabled \in BOOLEAN
    /\ present \in SUBSET {Ego}
    /\ FlowFresh

Called(op) ==
    /\ f_op' = op
    /\ f_pre' = [count |-> count, enabled |-> enabled]
    /\ f_before' = present

\* DynamicFlow.run()
Flow_run(draw) ==
    /\ cfg.capped \/ count < MaxCount
    /\ steps_inf \/ steps < MaxSteps
    /\ Called("run")
    /\ IF run_emits(draw)
       THEN /\ steps' = 0
            /\ steps_inf' = FALSE
            /\ present' = present \cup {NewName}
            /\ f_created' = {NewName}
            /\ ncreate' = ncreate + 1
            /\ f_issued' = f_issued \cup {NewName}
            /\ count' = count + 1
            /\ g_never' = FALSE
            /\ g_runs' = 0
       ELSE /\ steps' = IF steps_inf THEN steps ELSE steps + 1
            /\ f_created' = {}
            /\ g_runs' = IF g_never THEN g_runs ELSE g_runs + 1
            /\ UNCHANGED <<steps_inf, present, ncreate, f_issued, count, g_never>>
    /\ f_removed' = {}
    /\ f_S' = {}
    /\ UNCHANGED <<cfg, enabled>>

\* DynamicFlow.enable()
Flow_enable ==
    /\ Called("enable")
    /\ enabled' = TRUE
    /\ f_created' = {}
    /\ f_removed' = {}
    /\ f_S' = {}
    /\ UNCHANGED <<cfg, count, steps_inf, steps, present, ncreate, f_issued, g_never, g_runs>>

\* DynamicFlow.vaporize(), S being what getContextSubscriptionResults reports.
Flow_vaporize(S) ==
    /\ Called("vaporize")
    /\ present' = present \ vaporize_removes(S)
    /\ f_removed' = vaporize_removes(S)
    /\ f_S' = IF cfg.soft_vaporize THEN S ELSE {}
    /\ f_created' = {}
    /\ UNCHANGED <<cfg, enabled, count, steps_inf, steps, ncreate, f_issued, g_never, g_runs>>

\* DynamicFlow.disable()
Flow_disable(S) ==
    /\ Called("disable")
    /\ enabled' = FALSE
    /\ IF cfg.vaporizeOnDisable
       THEN /\ present' = present \ vaporize_removes(S)
            /\ f_removed' = vaporize_removes(S)
            /\ f_S' = IF cfg.soft_vaporize THEN S ELSE {}
       ELSE /\ f_removed' = {}
            /\ f_S' = {}
            /\ UNCHANGED present
    /\ f_created' = {}
    /\ UNCHANGED <<cfg, count, steps_inf, steps, ncreate, f_issued, g_never, g_runs>>

\* The simulation moves on: an entity leaves it, or the ego vehicle enters it.
Sim_entities(e) ==
    /\ present' = IF e \in present THEN present \ {e} ELSE present \cup {e}
    /\ e \in present \/ e = Ego
    /\ Called("sim")
    /\ f_created' = {}
    /\ f_removed' = {}
    /\ f_S' = {}
    /\ UNCHANGED <<cfg, enabled, count, steps_inf, steps, ncreate, f_issued, g_never, g_runs>>

\* The vehicles the simulation may report within vaporize_radius of the ego.
Contexts == SUBSET {e \in present : IsVehicle(e)}


\* -------------------------------------------------------- MultiConflict.py
MaxStation == 2    \* stations (arc lengths along a route) 0..MaxStation
MaxRelease == 1    \* release points and braking distances 0..MaxRelease
MaxSpeed == 1      \* speeds 0..MaxSpeed, in m/s
MaxQueue == 2      \* targets queued in one manager at a time
EpsDen == 10000    \* the speed 0.0001 put for a speed of 0 is 1/EpsDen

MATCH == "MATCH"   \* _ConflictTarget
WAIT == "WAIT"     \* _WaitTarget

\* The target point of the scenario, as (ego station, conflict vehicle
\* station) after projection on the two trajectories.
TargetPoints == {<<1, 1>>}

VARIABLES
    targets,      \* MultiConflict._targets
    active,       \* MultiConflict._active
    waiting,      \* MultiConflict._waiting
    paused,       \* MultiConflict.paused
    egoStation,   \* the ego vehicle's position projected on its trajectory
    cvStation,    \* the conflict vehicle's position projected on its trajectory
    egoSpeed,     \* traci.vehicle.getSpeed(ego_id)
    cvSpeed,      \* traci.vehicle.getSpeed(conflict_vehicle_id)
    m_op,         \* the manager method called last
    cmds,         \* the commands that call sent to the conflict vehicle, in order
    m_before,     \* _targets when that call began, for a check()
    m_popped,     \* whether that call removed a target
    everAdded,    \* whether a target was ever added
    emptyChecks   \* check() calls begun with no target since the last add (2: two or more)

mcVars == <<targets, active, waiting, paused, egoStation, cvStation, egoSpeed, cvSpeed,
            m_op, cmds, m_before, m_popped, everAdded, emptyChecks>>

\* traci.vehicle.setSpeed(conflict_vehicle_id, n/d)
SetSpeed(n, d) == [cmd |-> "setSpeed", num |-> n, den |-> d, dnum |-> 0, dden |-> 1]
\* traci.vehicle.setSpeed(conflict_vehicle_id, -1): control goes back to SUMO
Release == SetSpeed(-1, 1)
\* traci.vehicle.slowDown(conflict_vehicle_id, 0, n/d)
SlowDown(n, d) == [cmd |-> "slowDown", num |-> 0, den |-> 1, dnum |-> n, dden |-> d]

\* _add_generic_target sets _active.
add_active == TRUE

\* self._targets.append(target)
append_target(q, t) == Append(q, t)

pop_last(q) == SubSeq(q, 1, Len(q) - 1)

pop_two(q) == IF Len(q) >= 2 THEN Tail(Tail(q)) ELSE Tail(q)

\* self._targets.pop(0)
pop_head(q) == Tail(q)

match_controls_ge(t) == t.ego_station - egoStation >= t.release_point

\* _control_conflict_target: the ego vehicle is farther than release_point
\* from its target.
match_controls(t) == t.ego_station - egoStation > t.release_point

\* ego_speed with 0.0001 for 0, as numerator and denominator.
ego_speed_num == IF egoSpeed = 0 THEN 1 ELSE egoSpeed
ego_speed_den == IF egoSpeed = 0 THEN EpsDen ELSE 1

\* cv_desired_speed = cv_remaining_dist / ego_eta,
\* ego_eta = (ego_target - ego_station) / ego_speed.
cv_desired_speed(t) ==
    SetSpeed((t.conflict_vehicle_station - cvStation) * ego_speed_num,
             (t.ego_station - egoStation) * ego_speed_den)

wait_branch_brake_first(t) ==
    IF ~(cvStation < t.conflict_vehicle_station - t.release_point) /\ egoStation <= t.ego_station
    THEN "brake"
    ELSE IF cvStation < t.conflict_vehicle_station - t.release_point
         THEN "release"
         ELSE "pop"

\* The branch _control_wait_target takes.
wait_branch(t) ==
    IF egoStation > t.ego_station
    THEN "pop"
    ELSE IF cvStation < t.conflict_vehicle_station - t.release_point
         THEN "release"
         ELSE "brake"

braking_unclamped(t) ==
    IF cvSpeed > 0
    THEN SlowDown(t.conflict_vehicle_station - cvStation, cvSpeed * 2)
    ELSE SlowDown(0, 1)

\* dur of _control_wait_target, as numerator and denominator.
braking(t) ==
    IF cvSpeed > 0
    THEN IF t.conflict_vehicle_station - cvStation > 0
         THEN SlowDown(t.conflict_vehicle_station - cvStation, cvSpeed * 2)
         ELSE SlowDown(0, 1)
    ELSE SlowDown(0, 1)

\* check() with paused set first sends slowDown(conflict_vehicle_id, 0, 2).
paused_cmds == IF paused THEN <<SlowDown(2, 1)>> ELSE <<>>

empty_active_kept == active

\* _active after a check() with no target.
empty_active == FALSE

\* The commands of a check() with no target.
empty_cmds == IF active THEN <<Release>> ELSE <<>>

\* The commands of a check() whose head target is t.
head_cmds(t) ==
    IF t.kind = MATCH
    THEN IF match_controls(t) THEN <<cv_desired_speed(t)>> ELSE <<>>
    ELSE CASE wait_branch(t) = "pop" -> <<Release>>
           [] wait_branch(t) = "release" -> <<Release>>
           [] OTHER -> <<braking(t)>>

\* Whether a check() whose head target is t removes it.
head_pops(t) ==
    IF t.kind = MATCH THEN ~match_controls(t) ELSE wait_branch(t) = "pop"

MCInit ==
    /\ targets = <<>>
    /\ active = FALSE
    /\ waiting = FALSE
    /\ paused = FALSE
    /\ egoStation = 0
    /\ cvStation = 0
    /\ egoSpeed = 0
    /\ cvSpeed = 0
    /\ m_op = "idle"
    /\ cmds = <<>>
    /\ m_before = <<>>
    /\ m_popped = FALSE
    /\ everAdded = FALSE
    /\ emptyChecks = 0

MCCalled(op) ==
    /\ m_op' = op
    /\ m_before' = IF op = "check" THEN targets ELSE <<>>

\* add_target / add_wait_target -> _add_generic_target(kind, ...): pt is the
\* pair of projected stations, rp the release point or braking distance.
MC_add(kind, pt, rp) ==
    /\ Len(targets) < MaxQueue
    /\ MCCalled("add")
    /\ targets' = append_target(targets, [kind |-> kind, ego_station |-> pt[1],
                                          conflict_vehicle_station |-> pt[2],
                                          release_point |-> rp])
    /\ active' = add_active
    /\ everAdded' = TRUE
    /\ emptyChecks' = 0
    /\ cmds' = <<>>
    /\ m_popped' = FALSE
    /\ UNCHANGED <<waiting, paused, egoStation, cvStation, egoSpeed, cvSpeed>>

\* MultiConflict.check()
MC_check ==
    /\ MCCalled("check")
    /\ IF Len(targets) = 0
       THEN /\ cmds' = paused_cmds \o empty_cmds
            /\ active' = empty_active
            /\ m_popped' = FALSE
            /\ emptyChecks' = IF emptyChecks >= 1 THEN 2 ELSE 1
            /\ UNCHANGED <<targets, waiting>>
       ELSE LET t == targets[1] IN
            /\ cmds' = paused_cmds \o head_cmds(t)
            /\ targets' = IF head_pops(t) THEN pop_head(targets) ELSE targets
            /\ m_popped' = head_pops(t)
            /\ waiting' = IF t.kind = MATCH THEN waiting ELSE wait_branch(t) = "brake"
            /\ UNCHANGED <<active, emptyChecks>>
    /\ UNCHANGED <<paused, egoStation, cvStation, egoSpeed, cvSpeed, everAdded>>

\* The caller sets or clears MultiConflict.paused.
MC_pause ==
    /\ MCCalled("idle")
    /\ paused' = ~paused
    /\ cmds' = <<>>
    /\ m_popped' = FALSE
    /\ UNCHANGED <<targets, active, waiting, egoStation, cvStation, egoSpeed, cvSpeed,
                   everAdded, emptyChecks>>

\* The simulation moves the ego vehicle.
Sim_ego(es, ev) ==
    /\ MCCalled("idle")
    /\ egoStation' = es
    /\ egoSpeed' = ev
    /\ cmds' = <<>>
    /\ m_popped' = FALSE
    /\ UNCHANGED <<targets, active, waiting, paused, cvStation, cvSpeed,
                   everAdded, emptyChecks>>

\* The simulation moves the conflict vehicle.
Sim_cv(cs, cv) ==
    /\ MCCalled("idle")
    /\ cvStation' = cs
    /\ cvSpeed' = cv
    /\ cmds' = <<>>
    /\ m_popped' = FALSE
    /\ UNCHANGED <<targets, active, waiting, paused, egoStation, egoSpeed,
                   everAdded, emptyChecks>>

\* ------------------------------------------- DynamicFlows.py, __init__
MaxRoutes == 2     \* routes the simulation can hold: name, name.1, ..

\* The vehicle types of the simulation and the class of each.
VTypes == {"passenger", "bike", "walker", "runner"}
getVehicleClass(vType) ==
    CASE vType = "passenger" -> "passenger"
      [] vType = "bike" -> "bicycle"
      [] OTHER -> "pedestrian"

\* The route ids name, name.1, name.2, ..: RouteName(0) is name itself.
RouteName(i) == <<"route", i>>

VARIABLES
    routes,       \* the route ids the simulation holds
    c_args,       \* the arguments of the last DynamicFlow(...) call
    c_raised,     \* what that call raised: "none" if it returned a flow
    c_cmds        \* the state-changing commands that call issued, in order

ctorVars == <<routes, c_args, c_raised, c_cmds>>

\* The arguments of __init__; a value that is not given is None.
CtorArgs ==
    { a \in [ p_given : BOOLEAN,
              probability : 0..ProbDen,
              h_given : BOOLEAN,
              headway : 1..MaxHeadway,
              mix_given : BOOLEAN,
              vehicleMix : SUBSET VTypes,
              capped : BOOLEAN,
              maxCount : 0..MaxCount,
              enabled : BOOLEAN,
              vaporizeOnDisable : BOOLEAN,
              soft_vaporize : BOOLEAN,
              ego_id : {Ego, VehName(0)} ] :
        /\ (~a.p_given => a.probability = 0)
        /\ (~a.h_given => a.headway = 1)
        /\ (~a.mix_given => a.vehicleMix = {})
        /\ (~a.capped => a.maxCount = 0)
        /\ (~a.soft_vaporize => a.ego_id = Ego) }

\* What the simulation answers to the constructor's requests.
CtorEnvs == {"ok", "no_lane", "route_rejected"}

\* self.vehicleMix and the classes of its types.
mix_of(a) == IF a.mix_given THEN a.vehicleMix ELSE {"passenger"}
vClasses(a) == {getVehicleClass(vType) : vType \in mix_of(a)}
pedestrianFlag(a) == "pedestrian" \in vClasses(a)

\* probability is not None and headway is not None
both_given(a) == a.p_given /\ a.h_given

neither_unchecked(a) == FALSE

\* probability is None and headway is None
neither_given(a) == ~a.p_given /\ ~a.h_given

mixed_any_two(a) == Cardinality(vClasses(a)) > 1

\* A pedestrian class together with another class.
mixed(a) == pedestrianFlag(a) /\ Cardinality(vClasses(a)) > 1

\* get_rightmost_allowed_lane() finds no lane for a class of the mixture.
no_lane(a, env) == env = "no_lane" /\ mix_of(a) # {}

\* The first free name: name, else name.1, name.2, ..
free_name == CHOOSE i \in 0..Cardinality(routes) :
                 /\ RouteName(i) \notin routes
                 /\ \A j \in 0..(i - 1) : RouteName(j) \in routes

\* traci.route.add() is reached and accepted.
route_added(a, env) ==
    /\ ~both_given(a)
    /\ ~neither_given(a)
    /\ ~mixed(a)
    /\ ~no_lane(a, env)
    /\ env # "route_rejected"

\* What __init__ raises, in the order of its statements.
init_error(a, env) ==
    IF both_given(a) THEN "both"
    ELSE IF neither_given(a) THEN "neither"
    ELSE IF mixed(a) THEN "mixed"
    ELSE IF no_lane(a, env) THEN "no_lane"
    ELSE IF env = "route_rejected" THEN "route_rejected"
    ELSE IF a.soft_vaporize /\ pedestrianFlag(a) THEN "soft_pedestrian"
    ELSE "none"

\* The fields of the flow __init__ returns.
flow_cfg(a, dt) ==
    [ mode |-> IF a.p_given THEN "probability" ELSE "headway",
      headway |-> a.headway,
      probability |-> a.probability,
      capped |-> a.capped,
      maxCount |-> a.maxCount,
      vaporizeOnDisable |-> a.vaporizeOnDisable,
      soft_vaporize |-> a.soft_vaporize,
      ped |-> pedestrianFlag(a),
      ego_id |-> a.ego_id,
      deltaT |-> dt ]

NoArgs == CHOOSE a \in CtorArgs : TRUE

CtorInit ==
    /\ routes \in {{RouteName(j) : j \in 0..(i - 1)} : i \in 0..(MaxRoutes - 1)}
    /\ c_args = NoArgs
    /\ c_raised = "idle"
    /\ c_cmds = <<>>

\* DynamicFlow(...), in a simulation of tick duration dt.
Flow_init(a, env, dt) ==
    /\ Cardinality(routes) < MaxRoutes
    /\ c_args' = a
    /\ c_raised' = init_error(a, env)
    /\ IF route_added(a, env)
       THEN /\ routes' = routes \cup {RouteName(free_name)}
            /\ c_cmds' = << <<"route.add", free_name>>,
                           <<"route.setParameter", free_name>> >>
       ELSE /\ c_cmds' = <<>>
            /\ UNCHANGED routes
    /\ IF init_error(a, env) = "none"
       THEN /\ cfg' = flow_cfg(a, dt)
            /\ enabled' = a.enabled
            /\ count' = 0
            /\ steps_inf' = TRUE
            /\ steps' = 0
            /\ f_op' = "init"
            /\ f_pre' = [count |-> 0, enabled |-> a.enabled]
            /\ f_created' = {}
            /\ f_removed' = {}
            /\ f_S' = {}
            /\ f_before' = {}
            /\ ncreate' = 0
            /\ f_issued' = {}
            /\ g_never' = TRUE
            /\ g_runs' = 0
            /\ UNCHANGED present
       ELSE UNCHANGED flowVars

\* ------------------------------------------------------------ SimConfig.py
MaxBindings == 2   \* add() calls on one TriggeredFlows object

\* A trigger id that no zone of the simulation has.
Absent == "absent"

\* _TriggeredFlow: the flow with its two trigger ids and events.
TriggeredFlow(enable_trigger_id, disable_trigger_id, enable_event, disable_event) ==
    [ enable_trigger_id |-> enable_trigger_id,
      disable_trigger_id |-> disable_trigger_id,
      enable_event |-> enable_event,
      disable_event |-> disable_event ]

\* The arguments given to add(): a gate between the two zones, one zone used
\* for both, the zones' EXIT events, and an enabling trigger with no
\* disabling one.
AddArgs ==
    { TriggeredFlow("entry", "exit", ENTRY, ENTRY),
      TriggeredFlow("entry", "entry", ENTRY, ENTRY),
      TriggeredFlow("entry", "exit", EXIT, EXIT),
      TriggeredFlow("entry", Absent, ENTRY, ENTRY) }

VARIABLES
    flows,           \* TriggeredFlows.flows, every entry bound to the one flow
    trigger_states,  \* the dict check_triggers() returned to run(point)
    t_pc,            \* the statement of run() to execute next, "idle" outside run()
    t_i,             \* the entry of flows that statement works on
    t_none,          \* the running or last run() was given None
    t_time,          \* the simulation time of the last run() call, -1 before the first
    t_first,         \* the running or last run() made the tick's first trigger checks
    t_runs,          \* flow.run() calls made by the running or last run()
    t_created,       \* the ids the running or last run() created
    t_last,          \* the toggle the running or last run() made last
    t_en,            \* the running or last run() called flow.enable()
    t_dis,           \* the running or last run() called flow.disable()
    t_late,          \* some run() call toggled the flow after having run it
    t_run_en,        \* every flow.run() of the running or last run() found the flow enabled
    en_hist          \* enabled after the first run(point) of each tick, oldest first

tfVars == <<flows, trigger_states, t_pc, t_i, t_none, t_time, t_first, t_runs,
            t_created, t_last, t_en, t_dis, t_late, t_run_en, en_hist>>

\* Triggers.check_triggers(triggers, point): check(point) on every zone.
check_triggers(point) ==
    /\ \A z \in Zones : calls[z] < MaxCalls
    /\ state' = [z \in Zones |-> check_state(z, point)]
    /\ last_check' = [z \in Zones |-> check_last(z)]
    /\ last_event' = [z \in Zones |-> check_result(z, point)]
    /\ returned' = [z \in Zones |-> check_result(z, point)]
    /\ calls' = [z \in Zones |-> calls[z] + 1]
    /\ arg' = [z \in Zones |-> point]
    /\ snap' = [z \in Zones |->
                   IF calls[z] = 0
                   THEN [ret |-> check_result(z, point),
                         state |-> check_state(z, point),
                         last_check |-> check_last(z),
                         last_event |-> check_result(z, point),
                         point |-> point,
                         old_state |-> state[z]]
                   ELSE snap[z]]
    /\ hist' = [z \in Zones |->
                   IF calls[z] = 0 THEN Append(hist[z], check_result(z, point)) ELSE hist[z]]
    /\ UNCHANGED simTime

point_given_always(none) == TRUE

\* point is not None
point_given(none) == ~none

enable_hit_other_id(tf) ==
    /\ tf.disable_trigger_id \in DOMAIN trigger_states
    /\ trigger_states[tf.disable_trigger_id] = tf.enable_event

\* The condition under which run(point) calls tf.flow.enable().
enable_hit(tf) ==
    /\ tf.enable_trigger_id \in DOMAIN trigger_states
    /\ trigger_states[tf.enable_trigger_id] = tf.enable_event

disable_hit_unless_enabled(tf) ==
    /\ tf.disable_trigger_id \in DOMAIN trigger_states
    /\ trigger_states[tf.disable_trigger_id] = tf.disable_event
    /\ ~enable_hit(tf)

\* The condition under which run(point) calls tf.flow.disable().
disable_hit(tf) ==
    /\ tf.disable_trigger_id \in DOMAIN trigger_states
    /\ trigger_states[tf.disable_trigger_id] = tf.disable_event

step_after_per_entry(pc, i) ==
    IF pc = "enable" THEN <<"disable", i>>
    ELSE IF pc = "disable" THEN <<"run", i>>
    ELSE IF i < Len(flows) THEN <<"enable", i + 1>> ELSE <<"idle", 0>>

\* The statement that follows statement pc on entry i: the toggles of every
\* entry, then run() of every entry.
step_after(pc, i) ==
    IF pc = "enable" THEN <<"disable", i>>
    ELSE IF pc = "disable"
         THEN (IF i < Len(flows) THEN <<"enable", i + 1>> ELSE <<"run", 1>>)
    ELSE IF i < Len(flows) THEN <<"run", i + 1>> ELSE <<"idle", 0>>

\* The first statement of run() after the trigger checks.
first_step(checked) ==
    IF flows = <<>> THEN <<"idle", 0>>
    ELSE IF checked THEN <<"enable", 1>> ELSE <<"run", 1>>

\* run() returns: the flag is recorded if this call was the tick's first check.
returns(pc, en) ==
    en_hist' = IF pc = "idle" /\ t_first /\ ~t_none THEN Append(en_hist, en) ELSE en_hist

TFInit ==
    /\ flows = <<>>
    /\ trigger_states = [z \in Zones |-> NO_CHANGE]
    /\ t_pc = "idle"
    /\ t_i = 0
    /\ t_none = TRUE
    /\ t_time = -1
    /\ t_first = FALSE
    /\ t_runs = 0
    /\ t_created = {}
    /\ t_last = "none"
    /\ t_en = FALSE
    /\ t_dis = FALSE
    /\ t_late = FALSE
    /\ t_run_en = TRUE
    /\ en_hist = <<>>

\* TriggeredFlows.add(flow, ...), while the simulation is set up.
TF_add(tf) ==
    /\ t_time = -1
    /\ Len(flows) < MaxBindings
    /\ flows' = Append(flows, tf)
    /\ UNCHANGED <<trigger_states, t_pc, t_i, t_none, t_time, t_first, t_runs,
                   t_created, t_last, t_en, t_dis, t_late, t_run_en, en_hist>>

\* TriggeredFlows.run(point) is entered, once in a tick as the simulation loop
\* calls it: the trigger checks of line 74.
TF_run(none, point) ==
    /\ t_pc = "idle"
    /\ t_time < simTime
    /\ t_none' = none
    /\ t_time' = simTime
    /\ t_first' = (point_given(none) /\ \A z \in Zones : calls[z] = 0)
    /\ IF point_given(none)
       THEN /\ check_triggers(point)
            /\ trigger_states' = [z \in Zones |-> check_result(z, point)]
       ELSE UNCHANGED <<trigVars, trigger_states>>
    /\ t_pc' = first_step(point_given(none))[1]
    /\ t_i' = first_step(point_given(none))[2]
    /\ t_runs' = 0
    /\ t_created' = {}
    /\ t_last' = "none"
    /\ t_en' = FALSE
    /\ t_dis' = FALSE
    /\ t_run_en' = TRUE
    /\ en_hist' = IF flows = <<>> /\ t_first' /\ ~none THEN Append(en_hist, enabled) ELSE en_hist
    /\ UNCHANGED <<flows, t_late>>

\* Lines 76-77 for entry t_i.
TF_enable ==
    /\ t_pc = "enable"
    /\ IF enable_hit(flows[t_i])
       THEN /\ Flow_enable
            /\ t_en' = TRUE
            /\ t_last' = "enable"
            /\ t_late' = (t_late \/ t_runs > 0)
       ELSE UNCHANGED <<flowVars, t_en, t_last, t_late>>
    /\ t_pc' = step_after(t_pc, t_i)[1]
    /\ t_i' = step_after(t_pc, t_i)[2]
    /\ UNCHANGED <<flows, trigger_states, t_none, t_time, t_first, t_runs,
                   t_created, t_dis, t_run_en, en_hist>>

\* Lines 78-79 for entry t_i.
TF_disable(S) ==
    /\ t_pc = "disable"
    /\ IF disable_hit(flows[t_i])
       THEN /\ Flow_disable(S)
            /\ t_dis' = TRUE
            /\ t_last' = "disable"
            /\ t_late' = (t_late \/ t_runs > 0)
       ELSE UNCHANGED <<flowVars, t_dis, t_last, t_late>>
    /\ t_pc' = step_after(t_pc, t_i)[1]
    /\ t_i' = step_after(t_pc, t_i)[2]
    /\ UNCHANGED <<flows, trigger_states, t_none, t_time, t_first, t_runs,
                   t_created, t_en, t_run_en, en_hist>>

\* Line 82 for entry t_i.
TF_flow_run(draw) ==
    /\ t_pc = "run"
    /\ Flow_run(draw)
    /\ t_runs' = t_runs + 1
    /\ t_created' = t_created \cup f_created'
    /\ t_run_en' = (t_run_en /\ enabled)
    /\ t_pc' = step_after(t_pc, t_i)[1]
    /\ t_i' = step_after(t_pc, t_i)[2]
    /\ returns(step_after(t_pc, t_i)[1], enabled)
    /\ UNCHANGED <<flows, trigger_states, t_none, t_time, t_first,
                   t_last, t_en, t_dis, t_late>>

\* -------------------------------------------------- VehicleSignalControl.py
MaxChannels == 2   \* add_controlled_signal() calls on one SignallingVehicle

\* The signal bits the explored vehicles use, and the masks over them.
Bits == {0, 1}
Masks == 0..3

\* A duration of a blinking pattern, in ticks: np.inf, or a finite one.
Inf == <<"inf", 0>>
Fin(n) == <<"fin", n>>

\* [np.inf, 0], the pattern of a signal that does not blink.
STEADY == <<Inf, Fin(0)>>
\* [0.4, 0.4]: with ticks of one second each phase is over after one tick.
BLINK_DEFAULT == <<Fin(1), Fin(1)>>

\* No trigger given: enable_trigger=None, disable_trigger=None.
None == "None"

\* Signal(bit, pattern, enabled) as add_controlled_signal() stores it with its
\* triggers and events.
ControlledSignal(bit, pattern, en, enable_trigger, disable_trigger, enable_event, disable_event) ==
    [ bit |-> bit,
      pattern |-> pattern,
      enabled |-> en,
      pattern_i |-> 0,
      last_changed |-> 0,
      state |-> en,
      enable_trigger |-> enable_trigger,
      disable_trigger |-> disable_trigger,
      enable_event |-> enable_event,
      disable_event |-> disable_event ]

\* The arguments given to add_controlled_signal(): a steady light that is on
\* from the start, a blinker switched by the two zones, a steady light on the
\* blinker's bit that is on from the start, enabled again on entering the
\* entry zone and switched off on leaving it, and a blinker of a longer on
\* phase that one zone both switches on and off.
SignalArgs ==
    { ControlledSignal(0, STEADY, TRUE, None, None, ENTRY, ENTRY),
      ControlledSignal(1, BLINK_DEFAULT, FALSE, "entry", "exit", ENTRY, ENTRY),
      ControlledSignal(1, STEADY, TRUE, "entry", "entry", ENTRY, EXIT),
      ControlledSignal(0, <<Fin(2), Fin(1)>>, FALSE, "entry", "entry", ENTRY, ENTRY) }

VARIABLES
    signals,      \* SignallingVehicle.signals with the triggers and events of each
    sv_present,   \* self.id is in traci.vehicle.getIDList()
    sv_pos,       \* traci.vehicle.getPosition(self.id)
    dev_signals,  \* the signals of the vehicle in the simulation
    sv_op,        \* what happened last: "init", "add", "update", "sim"
    sv_time,      \* the simulation time of the last update() call, -1 before the first
    sv_cmds,      \* the commands the last update() call issued, in order
    sv_read       \* what getSignals() returned in the update() just called, -1 when none did

sigVars == <<signals, sv_present, sv_pos, dev_signals, sv_op, sv_time, sv_cmds, sv_read>>

\* traci.vehicle.setSignals(self.id, value)
SetSignals(value) == <<"setSignals", value>>

\* Signal.enable() that restarts the pattern of a channel that is already
\* enabled.
Signal_enable_restart(s, t) ==
    [s EXCEPT !.enabled = TRUE, !.pattern_i = 0, !.last_changed = t]

\* Signal.enable() at simulation time t.
Signal_enable(s, t) ==
    IF s.enabled THEN s
    ELSE [s EXCEPT !.enabled = TRUE, !.pattern_i = 0, !.last_changed = t]

\* Signal.disable()
Signal_disable(s) == [s EXCEPT !.enabled = FALSE]

phase_over_gt(s, t) ==
    /\ s.pattern[s.pattern_i + 1][1] = "fin"
    /\ t - s.last_changed > s.pattern[s.pattern_i + 1][2]

\* t - self._last_changed >= self.pattern[self._pattern_i]
phase_over(s, t) ==
    /\ s.pattern[s.pattern_i + 1][1] = "fin"
    /\ t - s.last_changed >= s.pattern[s.pattern_i + 1][2]

\* Signal.update() at simulation time t.
Signal_update(s, t) ==
    IF ~s.enabled THEN [s EXCEPT !.state = FALSE]
    ELSE LET i == IF phase_over(s, t) THEN (s.pattern_i + 1) % Len(s.pattern) ELSE s.pattern_i
         IN  [s EXCEPT !.pattern_i = i,
                       !.last_changed = IF phase_over(s, t) THEN t ELSE @,
                       !.state = ((i + 1) % 2 = 1)]

\* current_signals | (1 << bit) and current_signals & ~(1 << bit)
bit_set(mask, bit) == (mask \div Pow(2, bit)) % 2 = 1
or_bit(mask, bit) == IF bit_set(mask, bit) THEN mask ELSE mask + Pow(2, bit)
clear_bit_keep(mask, bit) == mask

clear_bit(mask, bit) == IF bit_set(mask, bit) THEN mask - Pow(2, bit) ELSE mask

listed_always == TRUE

\* self.id in traci.vehicle.getIDList()
listed == sv_present

\* The check() calls one update() makes on zone z: one for each trigger of each
\* signal that is this zone.
checks_of(z) ==
    Cardinality({i \in 1..Len(signals) : signals[i].enable_trigger = z})
    + Cardinality({i \in 1..Len(signals) : signals[i].disable_trigger = z})

\* check(point) on the zones update() checks: the first call of the tick on a
\* zone writes its fields, the later ones return its last event.
check_each(point) ==
    /\ state' = [z \in Zones |-> IF checks_of(z) > 0 THEN check_state(z, point) ELSE state[z]]
    /\ last_check' = [z \in Zones |-> IF checks_of(z) > 0 THEN check_last(z) ELSE last_check[z]]
    /\ last_event' = [z \in Zones |->
                         IF checks_of(z) > 0 THEN check_result(z, point) ELSE last_event[z]]
    /\ returned' = [z \in Zones |->
                       IF checks_of(z) > 0 THEN check_result(z, point) ELSE returned[z]]
    /\ calls' = [z \in Zones |-> calls[z] + checks_of(z)]
    /\ arg' = [z \in Zones |-> IF checks_of(z) > 0 THEN point ELSE arg[z]]
    /\ snap' = [z \in Zones |->
                   IF checks_of(z) > 0 /\ calls[z] = 0
                   THEN [ret |-> check_result(z, point),
                         state |-> check_state(z, point),
                         last_check |-> check_last(z),
                         last_event |-> check_result(z, point),
                         point |-> point,
                         old_state |-> state[z]]
                   ELSE snap[z]]
    /\ hist' = [z \in Zones |->
                   IF checks_of(z) > 0 /\ calls[z] = 0
                   THEN Append(hist[z], check_result(z, point))
                   ELSE hist[z]]
    /\ UNCHANGED simTime

\* Lines 91-95 for one signal: enable(), disable(), update().
signal_step(s) ==
    LET s1 == IF s.enable_trigger # None
                 /\ check_result(s.enable_trigger, sv_pos) = s.enable_event
              THEN Signal_enable(s, simTime) ELSE s
        s2 == IF s.disable_trigger # None
                 /\ check_result(s.disable_trigger, sv_pos) = s.disable_event
              THEN Signal_disable(s1) ELSE s1
    IN  Signal_update(s2, simTime)

\* Lines 96-99 for the first n signals ss, starting from current_signals.
RECURSIVE fold_signals(_, _, _)
fold_signals(ss, n, current_signals) ==
    IF n = 0 THEN current_signals
    ELSE IF ss[n].state
         THEN or_bit(fold_signals(ss, n - 1, current_signals), ss[n].bit)
         ELSE clear_bit(fold_signals(ss, n - 1, current_signals), ss[n].bit)

update_cmds_one(mask) == <<SetSignals(mask)>>

\* The commands of update(): the reset of line 87, the mask of line 100.
update_cmds(mask) == <<SetSignals(-1), SetSignals(mask)>>

SigInit ==
    /\ signals = <<>>
    /\ sv_present \in BOOLEAN
    /\ sv_pos \in Points
    /\ dev_signals \in Masks
    /\ sv_op = "init"
    /\ sv_time = -1
    /\ sv_cmds = <<>>
    /\ sv_read = -1

\* SignallingVehicle.add_controlled_signal(...), while the simulation is set up.
SV_add(s) ==
    /\ sv_time = -1
    /\ Len(signals) < MaxChannels
    /\ signals' = Append(signals, s)
    /\ sv_op' = "add"
    /\ UNCHANGED <<sv_present, sv_pos, dev_signals, sv_time, sv_cmds, sv_read>>

\* SignallingVehicle.update(), once in a tick as its docstring asks; default is
\* what getSignals() returns after the reset of line 87.
SV_update(default) ==
    /\ sv_time < simTime
    /\ sv_time' = simTime
    /\ sv_op' = "update"
    /\ IF ~listed
       THEN /\ sv_cmds' = <<>>
            /\ sv_read' = -1
            /\ UNCHANGED <<trigVars, signals, dev_signals>>
       ELSE /\ check_each(sv_pos)
            /\ signals' = [i \in 1..Len(signals) |-> signal_step(signals[i])]
            /\ sv_read' = default
            /\ dev_signals' = fold_signals(signals', Len(signals), default)
            /\ sv_cmds' = update_cmds(dev_signals')
    /\ UNCHANGED <<sv_present, sv_pos>>

\* The simulation moves the vehicle, or takes it in or out.
Sim_vehicle(here, pos) ==
    /\ sv_present' = here
    /\ sv_pos' = pos
    /\ sv_op' = "sim"
    /\ sv_read' = -1
    /\ UNCHANGED <<signals, dev_signals, sv_time, sv_cmds>>

\* -------------------------------------------------------- ConflictVehicles.py
MaxDist == 2   \* ego distances to the target point are 0..MaxDist
MaxLane == 2   \* conflict_lane_length and lane positions are at most MaxLane

\* ConflictVehicle(...) as __init__ leaves it: conflict_lane_length (the lane's
\* length plus the offset), conflict_lane_speed and release_point.
ConflictVehicles ==
    [ conflict_lane_length : 1..MaxLane,
      conflict_lane_speed : 1..MaxSpeed,
      release_point : 0..MaxRelease ]

VARIABLES
    cv_cfg,      \* the ConflictVehicle's conflict_lane_length, conflict_lane_speed, release_point
    deployed,    \* self.deployed
    done,        \* self.done
    cv_op,       \* the last call: "init", "check", "reset"
    cv_cmds,     \* the commands the last call issued, in order
    cv_dist,     \* the ego distance of the last check()
    cv_ego_speed, \* the ego speed of the last check()
    cv_added,    \* a creation command was issued since the last reset()
    cv_twice,    \* a second creation command was issued since the last reset()
    cv_within    \* since the last reset() a check() of the deployed vehicle saw the
                 \* ego vehicle nearer than release_point

cvVars == <<cv_cfg, deployed, done, cv_op, cv_cmds, cv_dist, cv_ego_speed, cv_added, cv_twice,
           cv_within>>

\* traci.vehicle.add(self.name, self.routeID, typeID=self.typeID, departSpeed="max")
AddVehicle == [cmd |-> "add", num |-> 0, den |-> 1]
\* traci.vehicle.remove(self.name, tc.REMOVE_VAPORIZED)
RemoveVehicle == [cmd |-> "remove", num |-> 0, den |-> 1]
\* traci.vehicle.slowDown(self.name, n/d, 0); d = 0 stands for the inf that
\* numpy's division by an ego_eta of 0 gives.
SlowDownTo(n, d) == [cmd |-> "slowDown", num |-> n, den |-> d]

\* A speed with 0.0001 for 0, as numerator and denominator.
speed_num(v) == IF v = 0 THEN 1 ELSE v
speed_den(v) == IF v = 0 THEN EpsDen ELSE 1

\* ego_eta <= conflict_eta_total, with ego_eta = ego_dist / ego_speed and
\* conflict_eta_total = conflict_lane_length / conflict_lane_speed.
ego_in_range(ego_dist, ego_speed) ==
    ego_dist * speed_den(ego_speed) * cv_cfg.conflict_lane_speed
        <= cv_cfg.conflict_lane_length * speed_num(ego_speed)

deploys_always(ego_dist, ego_speed) == ego_in_range(ego_dist, ego_speed)

\* Line 60: check() adds the vehicle.
deploys(ego_dist, ego_speed) == ~deployed /\ ego_in_range(ego_dist, ego_speed)

\* self.deployed after line 62.
deployed_after(ego_dist, ego_speed) == deployed \/ deploys(ego_dist, ego_speed)

\* self.done after line 65.
done_after(ego_dist, ego_speed) ==
    done \/ (deployed_after(ego_dist, ego_speed) /\ ego_dist < cv_cfg.release_point)

\* Line 67: the vehicle is on its way and the ego vehicle not past the release point.
controls(ego_dist, ego_speed) ==
    deployed_after(ego_dist, ego_speed) /\ ~done_after(ego_dist, ego_speed)

Abs(x) == IF x < 0 THEN -x ELSE x

\* abs(conflict_eta - ego_eta) > 0.25, with conflict_eta = conflict_dist / conflict_speed.
eta_off(ego_dist, ego_speed, conflict_dist, conflict_speed) ==
    4 * Abs(conflict_dist * speed_den(conflict_speed) * speed_num(ego_speed)
            - ego_dist * speed_den(ego_speed) * speed_num(conflict_speed))
        > speed_num(conflict_speed) * speed_num(ego_speed)

\* new_conflict_speed = conflict_dist / ego_eta, 0 if negative.
new_conflict_speed(ego_dist, ego_speed, conflict_dist) ==
    IF conflict_dist < 0
    THEN SlowDownTo(0, 1)
    ELSE IF ego_dist = 0
         THEN SlowDownTo(1, 0)
         ELSE SlowDownTo(conflict_dist * speed_num(ego_speed), ego_dist * speed_den(ego_speed))

\* The commands of check(ego_pos, ego_speed); lane_pos and conflict_speed are
\* what getLanePosition and getSpeed return for the vehicle.
check_cmds(ego_dist, ego_speed, lane_pos, conflict_speed) ==
    (IF deploys(ego_dist, ego_speed) THEN <<AddVehicle>> ELSE <<>>)
    \o (IF /\ controls(ego_dist, ego_speed)
           /\ eta_off(ego_dist, ego_speed, cv_cfg.conflict_lane_length - lane_pos, conflict_speed)
        THEN <<new_conflict_speed(ego_dist, ego_speed, cv_cfg.conflict_lane_length - lane_pos)>>
        ELSE <<>>)

CVInit ==
    /\ cv_cfg \in ConflictVehicles
    /\ deployed = FALSE
    /\ done = FALSE
    /\ cv_op = "init"
    /\ cv_cmds = <<>>
    /\ cv_dist = 0
    /\ cv_ego_speed = 0
    /\ cv_added = FALSE
    /\ cv_twice = FALSE
    /\ cv_within = FALSE

\* ConflictVehicle.check(ego_pos, ego_speed), ego_dist being the distance of
\* ego_pos to ego_target.
CV_check(ego_dist, ego_speed, lane_pos, conflict_speed) ==
    /\ cv_op' = "check"
    /\ cv_dist' = ego_dist
    /\ cv_ego_speed' = ego_speed
    /\ cv_cmds' = check_cmds(ego_dist, ego_speed, lane_pos, conflict_speed)
    /\ deployed' = deployed_after(ego_dist, ego_speed)
    /\ done' = done_after(ego_dist, ego_speed)
    /\ cv_added' = (cv_added \/ deploys(ego_dist, ego_speed))
    /\ cv_twice' = (cv_twice \/ (cv_added /\ deploys(ego_dist, ego_speed)))
    /\ cv_within' = (cv_within \/ (deployed' /\ ego_dist < cv_cfg.release_point))
    /\ UNCHANGED cv_cfg

\* ConflictVehicle.reset()
CV_reset ==
    /\ cv_op' = "reset"
    /\ cv_cmds' = <<RemoveVehicle>>
    /\ deployed' = FALSE
    /\ done' = FALSE
    /\ cv_added' = FALSE
    /\ cv_twice' = FALSE
    /\ cv_within' = FALSE
    /\ UNCHANGED <<cv_cfg, cv_dist, cv_ego_speed>>

\* ------------------------------------------------------- specifications
vars == <<trigVars, flowVars, mcVars, ctorVars, tfVars, sigVars, cvVars>>

CtorIdle == CtorInit /\ routes = {}

TFIdle == TFInit

SigIdle ==
    /\ SigInit
    /\ sv_present = FALSE
    /\ sv_pos = 0
    /\ dev_signals = 0

MCIdle == MCInit

CVIdle == CVInit /\ cv_cfg = CHOOSE c \in ConflictVehicles : TRUE

TrigIdle == TrigInit
FlowIdle ==
    /\ cfg = CHOOSE c \in Configs : TRUE
    /\ enabled = TRUE
    /\ present = {}
    /\ FlowFresh

TriggerCheck ==
    /\ \E z \in Zones, point \in Points : Trigger_check(z, point)
    /\ UNCHANGED <<flowVars, mcVars, ctorVars, tfVars, sigVars, cvVars>>
TriggerStep == SimulationStep /\ UNCHANGED <<flowVars, mcVars, ctorVars, tfVars, sigVars, cvVars>>

InitTrigger == TrigInit /\ FlowIdle /\ MCIdle /\ CtorIdle /\ TFIdle /\ SigIdle /\ CVIdle
NextTrigger == TriggerCheck \/ TriggerStep
SpecTrigger == InitTrigger /\ [][NextTrigger]_vars

FlowRun == (\E draw \in 0..(RandDen - 1) : Flow_run(draw)) /\ UNCHANGED <<trigVars, mcVars, ctorVars, tfVars, sigVars, cvVars>>
FlowEnable == Flow_enable /\ UNCHANGED <<trigVars, mcVars, ctorVars, tfVars, sigVars, cvVars>>
FlowDisable == (\E S \in Contexts : Flow_disable(S)) /\ UNCHANGED <<trigVars, mcVars, ctorVars, tfVars, sigVars, cvVars>>
FlowVaporize == (\E S \in Contexts : Flow_vaporize(S)) /\ UNCHANGED <<trigVars, mcVars, ctorVars, tfVars, sigVars, cvVars>>
FlowSim == (\E e \in Entities : Sim_entities(e)) /\ UNCHANGED <<trigVars, mcVars, ctorVars, tfVars, sigVars, cvVars>>

InitFlow == FlowInit /\ TrigIdle /\ MCIdle /\ CtorIdle /\ TFIdle /\ SigIdle /\ CVIdle
NextFlow == FlowRun \/ FlowEnable \/ FlowDisable \/ FlowVaporize \/ FlowSim
SpecFlow == InitFlow /\ [][NextFlow]_vars

MCAdd ==
    /\ \E kind \in {MATCH, WAIT}, pt \in TargetPoints, rp \in 0..MaxRelease : MC_add(kind, pt, rp)
    /\ UNCHANGED <<trigVars, flowVars, ctorVars, tfVars, sigVars, cvVars>>
MCCheck == MC_check /\ UNCHANGED <<trigVars, flowVars, ctorVars, tfVars, sigVars, cvVars>>
MCPause == MC_pause /\ UNCHANGED <<trigVars, flowVars, ctorVars, tfVars, sigVars, cvVars>>
MCSimEgo ==
    /\ \E es \in 0..MaxStation, ev \in 0..MaxSpeed : Sim_ego(es, ev)
    /\ UNCHANGED <<trigVars, flowVars, ctorVars, tfVars, sigVars, cvVars>>
MCSimCv ==
    /\ \E cs \in 0..MaxStation, cv \in 0..MaxSpeed : Sim_cv(cs, cv)
    /\ UNCHANGED <<trigVars, flowVars, ctorVars, tfVars, sigVars, cvVars>>

InitMC == MCInit /\ TrigIdle /\ FlowIdle /\ CtorIdle /\ TFIdle /\ SigIdle /\ CVIdle
NextMC == MCAdd \/ MCCheck \/ MCPause \/ MCSimEgo \/ MCSimCv
SpecMC == InitMC /\ [][NextMC]_vars

\* A behaviour follows one construction.
FlowCtor ==
    /\ c_raised = "idle"
    /\ \E a \in CtorArgs, env \in CtorEnvs, dt \in 1..MaxDeltaT : Flow_init(a, env, dt)
    /\ UNCHANGED <<trigVars, mcVars, tfVars, sigVars, cvVars>>

InitCtor == CtorInit /\ FlowIdle /\ TrigIdle /\ MCIdle /\ TFIdle /\ SigIdle /\ CVIdle
NextCtor == FlowCtor
SpecCtor == InitCtor /\ [][NextCtor]_vars

\* The flows bound to triggers in the explored simulations: vehicular, capped,
\* one vehicle a tick, with and without vaporizeOnDisable.
TFConfigs ==
    { c \in Configs :
        /\ c.deltaT = 1
        /\ c.capped /\ c.maxCount = MaxCount
        /\ ~c.soft_vaporize /\ ~c.ped
        /\ c.mode = "headway" /\ c.headway = 1 }

TFAdd ==
    /\ \E tf \in AddArgs : TF_add(tf)
    /\ UNCHANGED <<trigVars, flowVars, mcVars, ctorVars, sigVars, cvVars>>
TFRun ==
    /\ \E none \in BOOLEAN, point \in Points : (none => point = 0) /\ TF_run(none, point)
    /\ UNCHANGED <<flowVars, mcVars, ctorVars, sigVars, cvVars>>
TFEnable == TF_enable /\ UNCHANGED <<trigVars, mcVars, ctorVars, sigVars, cvVars>>
TFDisable == (\E S \in Contexts : TF_disable(S)) /\ UNCHANGED <<trigVars, mcVars, ctorVars, sigVars, cvVars>>
TFFlowRun ==
    /\ \E draw \in 0..(RandDen - 1) : TF_flow_run(draw)
    /\ UNCHANGED <<trigVars, mcVars, ctorVars, sigVars, cvVars>>
TFStep == t_pc = "idle" /\ SimulationStep /\ UNCHANGED <<flowVars, mcVars, ctorVars, tfVars, sigVars, cvVars>>
InitTF ==
    /\ TrigInit
    /\ TFInit
    /\ cfg \in TFConfigs
    /\ enabled \in BOOLEAN
    /\ present = {}
    /\ FlowFresh
    /\ MCIdle
    /\ CtorIdle
    /\ SigIdle
    /\ CVIdle
NextTF == TFAdd \/ TFRun \/ TFEnable \/ TFDisable \/ TFFlowRun \/ TFStep
SpecTF == InitTF /\ [][NextTF]_vars

SVAdd ==
    /\ \E s \in SignalArgs : SV_add(s)
    /\ UNCHANGED <<trigVars, flowVars, mcVars, ctorVars, tfVars, cvVars>>
SVUpdate ==
    /\ \E default \in Masks : SV_update(default)
    /\ UNCHANGED <<flowVars, mcVars, ctorVars, tfVars, cvVars>>
SVSim ==
    /\ \E here \in BOOLEAN, pos \in Points : (~here => pos = 0) /\ Sim_vehicle(here, pos)
    /\ UNCHANGED <<trigVars, flowVars, mcVars, ctorVars, tfVars, cvVars>>
SVStep ==
    /\ SimulationStep
    /\ sv_op' = "sim"
    /\ sv_read' = -1
    /\ UNCHANGED <<signals, sv_present, sv_pos, dev_signals, sv_time, sv_cmds>>
    /\ UNCHANGED <<flowVars, mcVars, ctorVars, tfVars, cvVars>>

InitSV == SigInit /\ TrigInit /\ FlowIdle /\ MCIdle /\ CtorIdle /\ TFIdle /\ CVIdle
NextSV == SVAdd \/ SVUpdate \/ SVSim \/ SVStep
SpecSV == InitSV /\ [][NextSV]_vars

\* A simulation loop whose ego vehicle carries the signals: one TriggeredFlows
\* binding and one SignallingVehicle channel use the same zones, both added
\* before the loop starts; in each tick the loop calls run(point) with the ego
\* position, then update(), which reads the same position, then
\* simulationStep().
LoopAddFlow ==
    /\ simTime = 0
    /\ flows = <<>>
    /\ TFAdd
LoopAddSignal ==
    /\ simTime = 0
    /\ signals = <<>>
    /\ SVAdd
LoopRun ==
    /\ flows # <<>>
    /\ signals # <<>>
    /\ TF_run(FALSE, sv_pos)
    /\ UNCHANGED <<flowVars, mcVars, ctorVars, sigVars, cvVars>>
LoopUpdate ==
    /\ t_pc = "idle"
    /\ t_time = simTime
    /\ SVUpdate
LoopStep ==
    /\ t_pc = "idle"
    /\ sv_time = simTime
    /\ SimulationStep
    /\ \E pos \in Points : Sim_vehicle(TRUE, pos)
    /\ UNCHANGED <<flowVars, mcVars, ctorVars, tfVars, cvVars>>
InitLoop ==
    /\ TrigInit
    /\ TFInit
    /\ cfg \in TFConfigs
    /\ enabled \in BOOLEAN
    /\ present = {}
    /\ FlowFresh
    /\ SigInit
    /\ sv_present
    /\ dev_signals = 0
    /\ MCIdle
    /\ CtorIdle
    /\ CVIdle
NextLoop ==
    \/ LoopAddFlow \/ LoopAddSignal \/ LoopRun \/ TFEnable \/ TFDisable \/ TFFlowRun
    \/ LoopUpdate \/ LoopStep
SpecLoop == InitLoop /\ [][NextLoop]_vars

CVCheck ==
    /\ \E ego_dist \in 0..MaxDist, ego_speed \in 0..MaxSpeed,
          lane_pos \in 0..MaxLane, conflict_speed \in 0..MaxSpeed :
           CV_check(ego_dist, ego_speed, lane_pos, conflict_speed)
    /\ UNCHANGED <<trigVars, flowVars, mcVars, ctorVars, tfVars, sigVars>>
CVReset == CV_reset /\ UNCHANGED <<trigVars, flowVars, mcVars, ctorVars, tfVars, sigVars>>

InitCV == CVInit /\ TrigIdle /\ FlowIdle /\ MCIdle /\ CtorIdle /\ TFIdle /\ SigIdle
NextCV == CVCheck \/ CVReset
SpecCV == InitCV /\ [][NextCV]_vars

\* ------------------------------------------------------------------ claims

\* C1: within one tick every check() of a zone returns what the first check()
\* of that tick returned, and the second and later calls leave the zone's
\* state, last_check and last_event as the first call left them.
C1_CheckIdempotentInTick ==
    \A z \in Zones :
        calls[z] >= 1 =>
            /\ returned[z] = snap[z].ret
            /\ state[z] = snap[z].state
            /\ last_check[z] = snap[z].last_check
            /\ last_event[z] = snap[z].last_event

\* A zone checked a second time in one tick with a point on the other side of
\* its boundary than the first.
C1_Witness ==
    \E z \in Zones :
        /\ calls[z] >= 2
        /\ includes(z, snap[z].point)
        /\ ~includes(z, arg[z])
        /\ returned[z] = ENTRY

Changes(z) == SelectSeq(hist[z], LAMBDA e : e # NO_CHANGE)

\* C2: the first check() of a tick returns ENTRY exactly when its point is
\* inside and the recorded state was outside, EXIT exactly when its point is
\* outside and the recorded state was inside, NO_CHANGE otherwise; over the
\* ticks ENTRY and EXIT alternate, beginning with ENTRY.
C2_EntryExitAlternate ==
    \A z \in Zones :
        /\ calls[z] >= 1 =>
              LET in == includes(z, snap[z].point)
                  was == snap[z].old_state
              IN  /\ (snap[z].ret = ENTRY) <=> (in /\ ~was)
                  /\ (snap[z].ret = EXIT) <=> (~in /\ was)
                  /\ (snap[z].ret = NO_CHANGE) <=> (in <=> was)
        /\ \A i \in 1..Len(Changes(z)) :
              Changes(z)[i] = (IF i % 2 = 1 THEN ENTRY ELSE EXIT)

\* A zone entered, held over a later tick, then left.
C2_Witness ==
    \E z \in Zones :
        /\ Len(hist[z]) >= 3
        /\ hist[z][1] = ENTRY
        /\ hist[z][2] = NO_CHANGE
        /\ hist[z][3] = EXIT

\* C3: the emission counter never exceeds maxCount, no more than maxCount
\* creation commands are ever issued, and a run() that begins with the
\* counter at maxCount creates nothing, also after vaporize() emptied the
\* simulation of the flow's entities.
C3_CountNeverExceedsMax ==
    cfg.capped =>
        /\ count <= cfg.maxCount
        /\ ncreate <= cfg.maxCount
        /\ (f_op = "run" /\ f_pre.count >= cfg.maxCount => f_created = {})

\* An enabled headway flow, at its cap and vaporized, is run when its headway
\* has elapsed.
C3_Witness ==
    /\ cfg.capped /\ cfg.maxCount > 0
    /\ f_op = "run"
    /\ f_pre.count = cfg.maxCount
    /\ f_pre.enabled
    /\ cfg.mode = "headway"
    /\ ~steps_inf /\ cfg.deltaT * steps >= cfg.headway
    /\ FlowNames(count) \cap present = {}

\* C10: a soft vaporize() removes exactly the vehicles name.i, i < count, that
\* the simulation lists, that are not the ego vehicle and that the context
\* subscription does not report; it removes neither the ego vehicle nor a
\* reported vehicle.
C10_SoftVaporizeSet ==
    (cfg.soft_vaporize /\ (f_op = "vaporize" \/ (f_op = "disable" /\ cfg.vaporizeOnDisable))) =>
        /\ f_removed = ((FlowNames(count) \cap f_before) \ (f_S \cup {cfg.ego_id}))
        /\ present = f_before \ f_removed
        /\ cfg.ego_id \notin f_removed
        /\ f_S \cap f_removed = {}
        /\ (cfg.ego_id \in f_before => cfg.ego_id \in present)
        /\ f_S \subseteq present

\* A soft vaporize() of a flow one of whose vehicles is the ego vehicle and
\* is not reported, a second is reported, and nothing else is left to remove.
C10_Witness ==
    /\ cfg.soft_vaporize
    /\ f_op = "vaporize"
    /\ cfg.ego_id = VehName(0)
    /\ cfg.ego_id \in f_before
    /\ cfg.ego_id \notin f_S
    /\ VehName(1) \in f_S
    /\ f_removed = {}

\* What the last call saw of its head target.
HadHead == m_op = "check" /\ Len(m_before) >= 1
Remaining(t) == t.ego_station - egoStation
SetSpeeds == SelectSeq(cmds, LAMBDA c : c.cmd = "setSpeed")

\* C4: a check() with a MATCH head removes it exactly when the ego vehicle's
\* remaining distance to ego_station is at most release_point; when it is
\* greater the target stays the head and one set-speed command is sent.
C4_MatchPoppedAtRelease ==
    (HadHead /\ m_before[1].kind = MATCH) =>
        /\ m_popped <=> Remaining(m_before[1]) <= m_before[1].release_point
        /\ Remaining(m_before[1]) > m_before[1].release_point =>
              /\ targets = m_before
              /\ Len(SetSpeeds) = 1
        /\ m_popped => targets = Tail(m_before)

\* A MATCH head removed with the ego vehicle exactly release_point away.
C4_Witness ==
    /\ HadHead /\ m_before[1].kind = MATCH
    /\ m_before[1].release_point > 0
    /\ Remaining(m_before[1]) = m_before[1].release_point
    /\ m_popped

\* C5 as claimed: the check() that removes a MATCH head with the ego vehicle
\* exactly release_point away sends the release command setSpeed(-1).
C5_ReleasedOnPopTick ==
    (HadHead /\ m_before[1].kind = MATCH /\ m_popped
        /\ Remaining(m_before[1]) = m_before[1].release_point) =>
        \E i \in 1..Len(cmds) : cmds[i] = Release

\* C6 as claimed: the speed a check() with a MATCH head commands is never
\* negative.
C6_MatchSpeedNotNegative ==
    (HadHead /\ m_before[1].kind = MATCH) =>
        \A i \in 1..Len(SetSpeeds) : SetSpeeds[i].num * SetSpeeds[i].den >= 0

\* C7: a check() with a WAIT head and the ego vehicle past ego_station
\* removes the head and sends the release command, wherever the conflict
\* vehicle is.
C7_WaitPoppedWhenEgoPassed ==
    (HadHead /\ m_before[1].kind = WAIT /\ egoStation > m_before[1].ego_station) =>
        /\ m_popped
        /\ targets = Tail(m_before)
        /\ \E i \in 1..Len(cmds) : cmds[i] = Release
        /\ \A i \in 1..Len(cmds) : cmds[i].cmd = "slowDown" => (paused /\ i = 1)

\* A WAIT head removed while the conflict vehicle is short of its own station
\* and within braking distance of it.
C7_Witness ==
    /\ HadHead /\ m_before[1].kind = WAIT
    /\ egoStation > m_before[1].ego_station
    /\ cvStation < m_before[1].conflict_vehicle_station
    /\ cvStation >= m_before[1].conflict_vehicle_station - m_before[1].release_point
    /\ m_popped

\* C8: with paused unset, the first check() with no target after an add
\* sends the release command alone and leaves the manager inactive, each
\* later one before the next add sends nothing, and a manager that never got
\* a target sends nothing.
C8_EmptyQueueReleaseOnce ==
    (m_op = "check" /\ Len(m_before) = 0 /\ ~paused) =>
        /\ ~active
        /\ (everAdded /\ emptyChecks = 1) => cmds = <<Release>>
        /\ emptyChecks >= 2 => cmds = <<>>
        /\ ~everAdded => cmds = <<>>

\* A second check() with no target after the manager's targets were used up.
C8_Witness ==
    /\ m_op = "check" /\ Len(m_before) = 0 /\ ~paused
    /\ everAdded
    /\ emptyChecks >= 2

\* The condition under which a target is complete.
Completed(t) ==
    IF t.kind = MATCH THEN Remaining(t) <= t.release_point ELSE egoStation > t.ego_station

\* The commands a head target t calls for, from its own fields.
HeadCommands(t) ==
    IF t.kind = MATCH
    THEN IF Completed(t) THEN <<>>
         ELSE <<[cmd |-> "setSpeed",
                 num |-> (t.conflict_vehicle_station - cvStation) * (IF egoSpeed = 0 THEN 1 ELSE egoSpeed),
                 den |-> Remaining(t) * (IF egoSpeed = 0 THEN EpsDen ELSE 1),
                 dnum |-> 0, dden |-> 1]>>
    ELSE IF Completed(t) \/ cvStation < t.conflict_vehicle_station - t.release_point
         THEN <<Release>>
         ELSE <<[cmd |-> "slowDown", num |-> 0, den |-> 1,
                 dnum |-> IF cvSpeed > 0 /\ t.conflict_vehicle_station > cvStation
                          THEN t.conflict_vehicle_station - cvStation ELSE 0,
                 dden |-> IF cvSpeed > 0 /\ t.conflict_vehicle_station > cvStation
                          THEN 2 * cvSpeed ELSE 1]>>

C9_HeadOnly ==
    /\ m_popped => (HadHead /\ Completed(m_before[1]) /\ targets = Tail(m_before))
    /\ HadHead =>
          cmds = (IF paused THEN <<SlowDown(2, 1)>> ELSE <<>>) \o HeadCommands(m_before[1])

C9_QueueStep ==
    targets' # targets =>
        \/ /\ m_op' = "add"
           /\ Len(targets') = Len(targets) + 1
           /\ SubSeq(targets', 1, Len(targets)) = targets
        \/ /\ m_op' = "check"
           /\ Len(targets) > 0
           /\ targets' = Tail(targets)
           /\ m_before' = targets
           /\ Completed(Head(targets))
           /\ UNCHANGED <<egoStation, cvStation, egoSpeed, cvSpeed>>

\* C9: the queue changes only by an add putting a target behind the others
\* and by a check() removing the head, so targets leave in the order they
\* were added; the head is removed only by a check() during which its
\* completion condition holds; the commands of a check() are those its head
\* target calls for.
C9_StrictFifo == [](C9_HeadOnly) /\ [][C9_QueueStep]_vars

\* Two targets added, the first removed by a check() while the second,
\* already complete as well, stays.
C9_Witness ==
    /\ HadHead /\ m_popped
    /\ Len(targets) = 1
    /\ targets[1].kind # m_before[1].kind
    /\ Completed(targets[1])

\* C18: the per-tick emission probability run() uses is 1 - (1 - p)^dt. With a
\* tick of one second it is p itself; with p = 0.5 it is exactly 0.5 for dt = 1
\* and exactly 0.75 for dt = 2, and run() sends exactly on the draws below it.
C18_TickProbability ==
    cfg.mode = "probability" =>
        /\ cfg.deltaT = 1 =>
               p_tick_num(cfg.deltaT) * ProbDen = cfg.probability * p_tick_den(cfg.deltaT)
        /\ 2 * cfg.probability = ProbDen /\ cfg.deltaT = 1 =>
               /\ 2 * p_tick_num(cfg.deltaT) = p_tick_den(cfg.deltaT)
               /\ \A draw \in 0..(RandDen - 1) : send_vehicle(draw) <=> 2 * draw < RandDen
        /\ 2 * cfg.probability = ProbDen /\ cfg.deltaT = 2 =>
               /\ 4 * p_tick_num(cfg.deltaT) = 3 * p_tick_den(cfg.deltaT)
               /\ \A draw \in 0..(RandDen - 1) : send_vehicle(draw) <=> 4 * draw < 3 * RandDen

\* A flow of probability 0.5 on two-second ticks has created an entity in run().
C18_Witness ==
    /\ cfg.mode = "probability"
    /\ 2 * cfg.probability = ProbDen
    /\ cfg.deltaT = 2
    /\ f_op = "run"
    /\ f_created # {}

\* C20: a headway flow's run() creates an entity exactly when the flow is
\* enabled, under its cap, and the tick duration times the number of run() calls
\* since the last creation (this call included, unbounded before the first
\* creation, counted also while disabled) is at least the headway.
C20_HeadwayStep ==
    (f_op' = "run" /\ cfg.mode = "headway") =>
        (f_created' # {} <=>
            /\ enabled
            /\ ~cfg.capped \/ count < cfg.maxCount
            /\ g_never \/ cfg.deltaT * (g_runs + 1) >= cfg.headway)
C20_HeadwayEmission == [][C20_HeadwayStep]_vars

\* A second entity was created by a flow whose headway spans two ticks.
C20_Witness ==
    /\ cfg.mode = "headway"
    /\ cfg.headway = 2 * cfg.deltaT
    /\ f_op = "run"
    /\ f_created # {}
    /\ f_pre.count >= 1

\* C12: a construction that fails with a configuration error (both or neither
\* of probability and headway, a mixed pedestrian and vehicular mixture, soft
\* vaporize for a pedestrian flow) has issued no state-changing command: no
\* route was registered under the flow's name.
C12_NoPartialConstruction ==
    c_raised \in {"both", "neither", "mixed", "soft_pedestrian"} => c_cmds = <<>>

\* C13: a construction with both probability and headway, or with neither,
\* fails with that configuration error whatever the other arguments, and no
\* flow results from it.
C13_Raised ==
    (c_raised # "idle" /\ (c_args.p_given <=> c_args.h_given)) =>
        c_raised \in {"both", "neither"}
C13_NoFlow ==
    (c_args'.p_given <=> c_args'.h_given) => UNCHANGED flowVars
C13_BothOrNeitherFails == [](C13_Raised) /\ [][C13_NoFlow]_vars

\* A call with neither of the two, its other arguments being those of a sound
\* capped flow, failed.
C13_Witness ==
    /\ c_raised = "neither"
    /\ ~c_args.soft_vaporize
    /\ c_args.capped
    /\ vClasses(c_args) = {"passenger", "bicycle"}

\* C14: a mixture with a pedestrian-class type and a type of another class
\* fails the construction with a configuration error; a mixture of pedestrian
\* types only, or of vehicular types only (of any number of classes), does not
\* fail for this reason.
C14_MixedFails ==
    LET has_ped == \E vType \in mix_of(c_args) : getVehicleClass(vType) = "pedestrian"
        has_other == \E vType \in mix_of(c_args) : getVehicleClass(vType) # "pedestrian"
    IN  c_raised # "idle" =>
            /\ (has_ped /\ has_other) => c_raised \in {"both", "neither", "mixed"}
            /\ ~(has_ped /\ has_other) => c_raised # "mixed"

\* A mixture of two pedestrian types and a vehicular one was refused.
C14_Witness ==
    /\ c_raised = "mixed"
    /\ {"walker", "runner"} \subseteq mix_of(c_args)

\* The one entry of C11's router: enabled on entering the entry zone, disabled
\* on entering the exit zone.
Gate == <<TriggeredFlow("entry", "exit", ENTRY, ENTRY)>>

\* The ids the flow has given to the entities it created.
FlowCreated == IF cfg.ped THEN FlowPedNames(count) ELSE FlowNames(count)

\* The checked point was outside both zones, then in the entry zone, then in
\* the exit zone, and run(point) of the third of these ticks has returned.
EntryThenExit ==
    /\ hist["entry"] = <<NO_CHANGE, ENTRY, EXIT>>
    /\ hist["exit"] = <<NO_CHANGE, NO_CHANGE, ENTRY>>
    /\ Len(en_hist) = 3

\* C11: a flow that starts disabled, is enabled by the entry zone and disabled
\* by the exit zone with vaporizeOnDisable, has enabled false, true, false
\* after the run(point) calls of a point that is outside both zones, then in
\* the entry zone, then in the exit zone; after the last of these calls none of
\* the entities the flow created is present.
C11_EndToEndGating ==
    (/\ flows = Gate
     /\ cfg.vaporizeOnDisable /\ ~cfg.soft_vaporize
     /\ EntryThenExit
     /\ en_hist[1] = FALSE) =>
        /\ en_hist = <<FALSE, TRUE, FALSE>>
        /\ ~enabled
        /\ FlowCreated \cap present = {}

\* The gate was driven through, and the vehicle created in the entry zone was
\* vaporized by the call of the exit tick.
C11_Witness ==
    /\ flows = Gate
    /\ cfg.vaporizeOnDisable /\ ~cfg.soft_vaporize
    /\ EntryThenExit
    /\ en_hist[1] = FALSE
    /\ t_pc = "idle"
    /\ t_time = simTime
    /\ count >= 1
    /\ present = {}

\* A step of a running run() call, its entry included.
InRun == t_pc # "idle" \/ t_time' # t_time

\* C16: every run(), with a point or with None, calls run() of the flow of
\* every entry; with None it checks no zone and changes no zone's state,
\* last-check time or last event, and no flow's enabled flag.
C16_EveryEntryRun == (t_pc = "idle" /\ t_time >= 0) => t_runs = Len(flows)
C16_NoneStep ==
    (InRun /\ t_none') => UNCHANGED <<state, last_check, last_event, calls, enabled>>
C16_RunsEveryFlow == [](C16_EveryEntryRun) /\ [][C16_NoneStep]_vars

\* run(None) has returned in a tick after the point was checked inside the
\* entry zone, having run the flow of both its entries.
C16_Witness ==
    /\ t_pc = "idle"
    /\ t_none
    /\ t_time = simTime
    /\ simTime > last_check["entry"]
    /\ state["entry"]
    /\ Len(flows) = 2
    /\ t_runs = 2

\* C19 as stated: in one run(point) no toggle follows a flow's run(); a flow on
\* which this call called disable() creates nothing in it, and a flow on which
\* it called enable() is enabled at each of its run() calls.
C19_ToggledBeforeRun ==
    /\ ~t_late
    /\ t_pc = "idle" => /\ (t_dis => t_created = {})
                        /\ (t_en => t_run_en)

\* C19, amended: in one run(point) no toggle follows a flow's run(); a flow
\* whose last toggle in this call was disable() creates nothing in it, and a
\* flow whose last toggle in this call was enable() is enabled at each of its
\* run() calls.
C19_LastToggleBeforeRun ==
    /\ ~t_late
    /\ t_pc = "idle" => /\ (t_last = "disable" => t_created = {})
                        /\ (t_last = "enable" => t_run_en)

\* One call disabled the flow through its first entry, enabled it again through
\* its second, and the flow created a vehicle.
C19_Witness ==
    /\ t_pc = "idle"
    /\ t_dis
    /\ t_last = "enable"
    /\ t_runs = 2
    /\ t_created # {}

\* The last update() call found the vehicle in the simulation.
UpdatedPresent == sv_op = "update" /\ sv_present

\* C15 as stated: update() of a present vehicle issues exactly one setSignals
\* command, which carries the combined mask, whatever the number of signals.
C15_OneSetSignals ==
    UpdatedPresent => sv_cmds = <<SetSignals(dev_signals)>>

\* C15, amended: update() of a present vehicle issues exactly two setSignals
\* commands whatever the number of signals: first the reset setSignals(-1),
\* then one command carrying the combined mask, in which the bit of every
\* signal (the last signal on a bit deciding) is the signal's state.
C15_ResetThenMask ==
    UpdatedPresent =>
        /\ Len(sv_cmds) = 2
        /\ sv_cmds[1] = SetSignals(-1)
        /\ sv_cmds[2] = SetSignals(dev_signals)
        /\ dev_signals \in Masks
        /\ \A i \in 1..Len(signals) :
               (\A j \in (i + 1)..Len(signals) : signals[j].bit # signals[i].bit) =>
                   (bit_set(dev_signals, signals[i].bit) <=> signals[i].state)

\* update() of a present vehicle with two signals on different bits, one of
\* them on.
C15_Witness ==
    /\ UpdatedPresent
    /\ Len(signals) = 2
    /\ signals[1].bit # signals[2].bit
    /\ signals[2].state
    /\ Len(sv_cmds) = 2

\* C17: update() of a vehicle that is not in the simulation does nothing: it
\* issues no command, checks no zone, and changes no signal's enabled flag,
\* phase, last-change time or state.
C17_AbsentStep ==
    (sv_op' = "update" /\ ~sv_present) =>
        /\ sv_cmds' = <<>>
        /\ UNCHANGED <<state, last_check, last_event, calls, signals, dev_signals>>
C17_AbsentNoOp == [][C17_AbsentStep]_vars

\* update() was called for an absent vehicle whose position is inside the
\* entry zone, a zone not checked yet that would have enabled a signal.
C17_Witness ==
    /\ sv_op = "update"
    /\ ~sv_present
    /\ sv_time = simTime
    /\ sv_cmds = <<>>
    /\ includes("entry", sv_pos)
    /\ ~state["entry"]
    /\ \E i \in 1..Len(signals) :
           signals[i].enable_trigger = "entry" /\ ~signals[i].enabled

\* C21: a run() of a flow whose enabled flag is false creates no entity (so
\* its post-creation hook, called right after the creation, is not called
\* either) and leaves the emission counter unchanged, whatever the headway,
\* the probability, the random draw and the ticks elapsed.
C21_DisabledRunCreatesNothing ==
    (f_op = "run" /\ ~f_pre.enabled) =>
        /\ f_created = {}
        /\ count = f_pre.count
        /\ present = f_before

\* A disabled headway flow under its cap that never emitted was run: its
\* send condition held, and nothing was created.
C21_Witness ==
    /\ f_op = "run"
    /\ ~f_pre.enabled
    /\ cfg.mode = "headway"
    /\ steps_inf
    /\ under_cap
    /\ f_created = {}
    /\ count = 0

\* The bits of the channels of the vehicle, and whether no two channels share one.
ChannelBits == {signals[i].bit : i \in 1..Len(signals)}
DistinctBits ==
    \A i, j \in 1..Len(signals) : i # j => signals[i].bit # signals[j].bit

\* C22: when the channels of a present vehicle use pairwise distinct bits, the
\* mask update() writes has each channel's bit at 1 exactly when the channel
\* is enabled and its phase index is even after the gating and the phase
\* advance of this update(), and has every bit of no channel as getSignals()
\* returned it in this call.
C22_MaskBits ==
    (UpdatedPresent /\ DistinctBits) =>
        /\ sv_cmds[Len(sv_cmds)] = SetSignals(dev_signals)
        /\ \A i \in 1..Len(signals) :
               bit_set(dev_signals, signals[i].bit)
                   <=> (signals[i].enabled /\ signals[i].pattern_i % 2 = 0)
        /\ \A b \in Bits \ ChannelBits :
               bit_set(dev_signals, b) <=> bit_set(sv_read, b)

\* update() of a present vehicle with the one channel on bit 1, enabled and in
\* an off phase, when getSignals() returned both bits set: bit 1 was cleared,
\* bit 0 is kept as read.
C22_Witness ==
    /\ UpdatedPresent
    /\ Len(signals) = 1
    /\ signals[1].bit = 1
    /\ signals[1].enabled
    /\ signals[1].pattern_i = 1
    /\ sv_read = 3
    /\ dev_signals = 1

\* C23: update() of a present vehicle leaves each channel that is enabled
\* after the gating with its phase index advanced by one modulo the pattern
\* length and its last-change time set to now if the time since the last
\* change (now, for a channel enabled in this update()) is at least the
\* duration of the phase it was in, and with both as they were otherwise; the
\* phase index is always an index of the pattern, and a channel that does not
\* blink is always in phase 0 and on after every update() that leaves it
\* enabled.
C23_PhaseStep ==
    /\ (sv_op' = "update" /\ sv_present) =>
           \A i \in 1..Len(signals) :
               signals'[i].enabled =>
                   LET s == signals[i]
                       p0 == IF s.enabled THEN s.pattern_i ELSE 0
                       lc0 == IF s.enabled THEN s.last_changed ELSE simTime
                       d == s.pattern[p0 + 1]
                       over == d[1] = "fin" /\ simTime - lc0 >= d[2]
                   IN  IF over
                       THEN /\ signals'[i].pattern_i = (p0 + 1) % Len(s.pattern)
                            /\ signals'[i].last_changed = simTime
                       ELSE /\ signals'[i].pattern_i = p0
                            /\ signals'[i].last_changed = lc0
    /\ \A i \in 1..Len(signals') :
           /\ signals'[i].pattern_i \in 0..(Len(signals'[i].pattern) - 1)
           /\ signals'[i].pattern = STEADY =>
                  /\ signals'[i].pattern_i = 0
                  /\ (sv_op' = "update" /\ sv_present /\ signals'[i].enabled)
                         => signals'[i].state
C23_PhaseAdvance == [][C23_PhaseStep]_vars

\* update() at time 2 took a blinker from its off phase back to phase 0: the
\* zone that enables it was checked in this tick and reported no entry, so the
\* channel was enabled before and its phase index wrapped around.
C23_Witness ==
    /\ UpdatedPresent
    /\ sv_time = simTime
    /\ \E i \in 1..Len(signals) :
           /\ signals[i].pattern = BLINK_DEFAULT
           /\ signals[i].enabled
           /\ signals[i].pattern_i = 0
           /\ signals[i].last_changed = simTime
           /\ signals[i].last_changed = 2
           /\ last_check[signals[i].enable_trigger] = simTime
           /\ last_event[signals[i].enable_trigger] # signals[i].enable_event

\* The last check() had a WAIT head whose ego vehicle had not passed its station.
WaitNotPassed ==
    HadHead /\ m_before[1].kind = WAIT /\ egoStation <= m_before[1].ego_station

\* What is asked of the commands cs of such a check(): with the conflict
\* vehicle farther than the braking distance before its station, a release
\* and no slowDown; otherwise one slowDown to zero, and no other, whose
\* duration is half the remaining distance over the speed, or 0 when the
\* speed is not positive or nothing remains.
WaitCommands(cs) ==
    LET t == m_before[1]
        rem == t.conflict_vehicle_station - cvStation
        brakes == {i \in 1..Len(cs) : cs[i].cmd = "slowDown"}
    IN  IF cvStation < t.conflict_vehicle_station - t.release_point
        THEN /\ \E i \in 1..Len(cs) : cs[i] = Release
             /\ brakes = {}
        ELSE /\ Cardinality(brakes) = 1
             /\ \A i \in brakes :
                    /\ cs[i].num = 0
                    /\ cs[i].dden > 0
                    /\ cs[i].dnum >= 0
                    /\ IF cvSpeed > 0 /\ rem > 0
                       THEN cs[i].dnum * 2 * cvSpeed = rem * cs[i].dden
                       ELSE cs[i].dnum = 0

\* C24 as stated: a check() with a WAIT head whose ego vehicle has not passed
\* its station sends a release and no braking command when the conflict
\* vehicle is farther than the braking distance before its station, and
\* exactly one slowDown to zero of non-negative duration otherwise; the
\* target stays.
C24_WaitReleaseOrBrake ==
    WaitNotPassed =>
        /\ ~m_popped
        /\ targets = m_before
        /\ WaitCommands(cmds)

\* C24, amended: the same of the commands check() sends after the
\* slowDown(0, 2) that a paused manager sends first; an unpaused manager sends
\* no other command.
C24_WaitReleaseOrBrakeAfterPause ==
    WaitNotPassed =>
        /\ ~m_popped
        /\ targets = m_before
        /\ paused => (Len(cmds) >= 1 /\ cmds[1] = SlowDown(2, 1))
        /\ WaitCommands(IF paused THEN Tail(cmds) ELSE cmds)

\* An unpaused check() braked the conflict vehicle, one unit before its
\* station at speed 1, over half a time unit and kept the WAIT head.
C24_Witness ==
    /\ WaitNotPassed
    /\ ~paused
    /\ cvSpeed = 1
    /\ m_before[1].conflict_vehicle_station - cvStation = 1
    /\ cmds = <<SlowDown(1, 2)>>
    /\ targets = m_before

\* C25: when a zone is checked again in a tick with a point other than the
\* first point checked in that tick, the later call returns the event of the
\* first point (against the state recorded before the tick) and the zone's
\* recorded state is whether the first point is inside, wherever the later
\* point is.
C25_FirstPointWins ==
    \A z \in Zones :
        (calls[z] >= 2 /\ arg[z] # snap[z].point) =>
            /\ returned[z] = check_event(includes(z, snap[z].point), snap[z].old_state)
            /\ state[z] = includes(z, snap[z].point)
            /\ last_check[z] = simTime

\* A zone checked first with a point outside it and then, in the same tick,
\* with a point inside it: the later call reported no change and the zone is
\* recorded as not entered.
C25_Witness ==
    \E z \in Zones :
        /\ calls[z] >= 2
        /\ ~includes(z, snap[z].point)
        /\ includes(z, arg[z])
        /\ returned[z] = NO_CHANGE
        /\ ~state[z]

\* In this tick zone et reported event ee and zone dt reported event de: the
\* enable condition and the disable condition of a binding or channel with
\* these triggers and events both hold.
BothHold(et, dt, ee, de) ==
    /\ et \in Zones
    /\ dt \in Zones
    /\ last_check[et] = simTime
    /\ last_check[dt] = simTime
    /\ last_event[et] = ee
    /\ last_event[dt] = de

BindingBothHold(tf) ==
    BothHold(tf.enable_trigger_id, tf.disable_trigger_id, tf.enable_event, tf.disable_event)

ChannelBothHold(s) ==
    BothHold(s.enable_trigger, s.disable_trigger, s.enable_event, s.disable_event)

\* After run(point) of a binding of which both conditions held, the flow is
\* disabled, its last toggle was disable() and it created nothing; with
\* vaporizeOnDisable none of its entities is left. After update() of a present
\* vehicle, a channel of which both conditions held is disabled and off, and
\* its bit is 0 in the mask.
C26_AfterCall ==
    /\ (t_pc = "idle" /\ t_time = simTime /\ ~t_none /\ Len(flows) = 1
            /\ BindingBothHold(flows[1])) =>
           /\ ~enabled
           /\ t_en /\ t_dis /\ t_last = "disable"
           /\ t_created = {}
           /\ cfg.vaporizeOnDisable => FlowCreated \cap present = {}
    /\ (UpdatedPresent /\ sv_time = simTime) =>
           \A i \in 1..Len(signals) :
               ChannelBothHold(signals[i]) =>
                   /\ ~signals[i].enabled
                   /\ ~signals[i].state
                   /\ ~bit_set(dev_signals, signals[i].bit)

\* The disable statement of a binding of which both conditions hold leaves the
\* flow disabled and removes its entities if vaporizeOnDisable is set, and
\* none otherwise.
C26_DisableStep ==
    (t_pc = "disable" /\ BindingBothHold(flows[t_i])) =>
        /\ ~enabled'
        /\ present' = IF cfg.vaporizeOnDisable THEN present \ FlowCreated ELSE present

C27_FlowRunOncePerCall ==
    (t_pc = "idle" /\ t_time >= 0 /\ flows # <<>>) => t_runs = 1

\* C28: a check() never lengthens the queue and shortens it by at most one
\* target, the head, also when the targets behind the head are complete
\* already.
C28_CheckStep ==
    m_op' = "check" =>
        /\ Len(targets') <= Len(targets)
        /\ Len(targets') >= Len(targets) - 1
        /\ targets' = targets \/ (targets # <<>> /\ targets' = Tail(targets))
C28_AtMostOnePop == [][C28_CheckStep]_vars

\* A check() removed the head of two targets and kept the second, a MATCH
\* target whose release point the ego vehicle has reached as well.
C28_Witness ==
    /\ HadHead /\ m_popped
    /\ Len(m_before) = 2
    /\ Len(targets) = 1
    /\ targets[1].kind = MATCH
    /\ Remaining(targets[1]) <= targets[1].release_point

\* C29: the emission counter never decreases; a run() adds one to it when it
\* creates an entity and leaves it otherwise; enable(), disable() and
\* vaporize() leave it as it is; the id a run() gives to the entity it creates
\* is name.<count> (name.ped.<count> for pedestrians) of the counter before,
\* and was given to no entity the flow created earlier.
C29_CounterStep ==
    /\ count' >= count
    /\ f_op' = "run" =>
           /\ count' = count + (IF f_created' # {} THEN 1 ELSE 0)
           /\ f_created' \subseteq {IF cfg.ped THEN PedName(count) ELSE VehName(count)}
           /\ f_created' \cap f_issued = {}
           /\ f_issued' = f_issued \cup f_created'
    /\ f_op' \in {"enable", "disable", "vaporize"} =>
           /\ count' = count
           /\ f_issued' = f_issued
C29_DistinctIds == [][C29_CounterStep]_vars

\* The flow created its second entity when the first, created and gone from
\* the simulation, was no longer present.
C29_Witness ==
    /\ f_op = "run"
    /\ count = 2
    /\ Cardinality(f_issued) = 2
    /\ f_created # {}
    /\ present \cap f_issued = f_created

\* The speed commands and the creation commands of the last call.
SpeedCommands == {i \in 1..Len(cv_cmds) : cv_cmds[i].cmd = "slowDown"}
AddCommands == {i \in 1..Len(cv_cmds) : cv_cmds[i].cmd = "add"}

\* Between two reset() calls no second creation command is issued; a speed
\* command is issued only by a check() of a deployed vehicle, after a creation
\* command; once a check() of the deployed vehicle saw the ego vehicle nearer
\* than release_point, done is set and no check() issues a speed command.
C30_Deployed ==
    /\ ~cv_twice
    /\ Cardinality(AddCommands) <= 1
    /\ SpeedCommands # {} => (cv_op = "check" /\ cv_added /\ deployed)
    /\ cv_within => done
    /\ (cv_op = "check" /\ cv_within) => SpeedCommands = {}

\* A check() of a deployed vehicle issues no creation command and leaves it
\* deployed, wherever the ego vehicle is and whatever its speed; a check()
\* leaves done set.
C30_CheckStep ==
    cv_op' = "check" =>
        /\ deployed => (deployed' /\ \A i \in 1..Len(cv_cmds') : cv_cmds'[i].cmd # "add")
        /\ done => done'

\* C30: check() issues the creation command at most once between two reset()
\* calls, and none once the vehicle is deployed; it issues no speed command
\* before the deployment; once the ego vehicle has come within release_point
\* of its target after the deployment, done stays set and no check() issues a
\* speed command until reset(), also when the ego vehicle is farther away
\* again.
C30_DeployOnce == [](C30_Deployed) /\ [][C30_CheckStep]_vars

\* A check() after the ego vehicle had come within release_point found it
\* away again, at a distance and speed at which an undeployed vehicle is
\* added: it issued no command.
C30_Witness ==
    /\ cv_op = "check"
    /\ cv_within
    /\ done
    /\ deployed
    /\ cv_dist >= cv_cfg.release_point
    /\ ego_in_range(cv_dist, cv_ego_speed)
    /\ cv_cmds = <<>>

\* Whether the check of the channel's enable (disable) trigger made by the
\* update() being taken reported the channel's enable (disable) event.
C31_EnableHit(s) ==
    s.enable_trigger # None /\ last_event'[s.enable_trigger] = s.enable_event

C31_DisableHit(s) ==
    s.disable_trigger # None /\ last_event'[s.disable_trigger] = s.disable_event

\* C31: in update() of a present vehicle, an enable event on a channel that
\* is already enabled restarts nothing: the phase goes on from the phase
\* index and the last-change time the channel had, exactly as without the
\* event. An enable event on a disabled channel puts the phase index to 0 and
\* the last-change time to now before the phase is looked at. A disable event
\* leaves the channel disabled with the phase index and the last-change time
\* it had when disable() was reached, and a channel without any event keeps
\* both unless its phase is over.
C31_EnableStep ==
    (sv_op' = "update" /\ sv_present) =>
        \A i \in 1..Len(signals) :
            LET s == signals[i]
                n == signals'[i]
                d == s.pattern[s.pattern_i + 1]
                over == d[1] = "fin" /\ simTime - s.last_changed >= d[2]
                d0 == s.pattern[1]
                over0 == d0[1] = "fin" /\ 0 >= d0[2]
            IN  /\ (s.enabled /\ C31_EnableHit(s) /\ ~C31_DisableHit(s)) =>
                       /\ n.enabled
                       /\ n.pattern_i = IF over THEN (s.pattern_i + 1) % Len(s.pattern)
                                        ELSE s.pattern_i
                       /\ n.last_changed = IF over THEN simTime ELSE s.last_changed
                /\ (~s.enabled /\ C31_EnableHit(s) /\ ~C31_DisableHit(s)) =>
                       /\ n.enabled
                       /\ n.pattern_i = IF over0 THEN 1 % Len(s.pattern) ELSE 0
                       /\ n.last_changed = simTime
                /\ (~s.enabled /\ C31_EnableHit(s) /\ C31_DisableHit(s)) =>
                       /\ ~n.enabled
                       /\ n.pattern_i = 0
                       /\ n.last_changed = simTime
                /\ (C31_DisableHit(s) /\ (s.enabled \/ ~C31_EnableHit(s))) =>
                       /\ ~n.enabled
                       /\ n.pattern_i = s.pattern_i
                       /\ n.last_changed = s.last_changed
                /\ (~s.enabled /\ ~C31_EnableHit(s)) =>
                       /\ ~n.enabled
                       /\ n.pattern_i = s.pattern_i
                       /\ n.last_changed = s.last_changed
C31_EnableIdempotent == [][C31_EnableStep]_vars

\* update() at a time after 0 in which the vehicle entered the entry zone: the
\* steady channel that was enabled from the start got its enable event and
\* still has the last-change time 0 of its construction, while the blinker that
\* was disabled until now starts its pattern at phase 0 with the last-change
\* time of this tick.
C31_Witness ==
    /\ UpdatedPresent
    /\ sv_time = simTime
    /\ simTime >= 1
    /\ last_event["entry"] = ENTRY
    /\ last_check["entry"] = simTime
    /\ \E i, j \in 1..Len(signals) :
           /\ signals[i].pattern = STEADY
           /\ signals[i].enable_trigger = "entry"
           /\ signals[i].enable_event = ENTRY
           /\ signals[i].disable_event = EXIT
           /\ signals[i].enabled
           /\ signals[i].last_changed = 0
           /\ signals[j].pattern = BLINK_DEFAULT
           /\ signals[j].enable_trigger = "entry"
           /\ signals[j].enabled
           /\ signals[j].pattern_i = 0
           /\ signals[j].last_changed = simTime

====
